---- MODULE Spec2Model ----
\* A model of rust/unix_socket/src/main.rs: the HTTP/1.1 request encoder
\* (Request::build), the response decoder (HttpClient::read_response) and
\* the client operation (HttpClient::execute_request).
\*
\* Bytes are the integers 0..255; a Vec<u8> or a String is a sequence of
\* bytes.  An Option is a sequence of length 0 (None) or 1 (Some).
EXTENDS Integers, Sequences, FiniteSets, TLC

VARIABLES
    req,        \* the Request under construction / being sent
    paramsLog,  \* the (key, value) pairs given to HttpParams::from_iter, in order
    addLog,     \* the (key, value) pairs given to HttpHeader::add, in order
    pc,         \* position of the caller / of execute_request / of read_response
    out,        \* the Vec<u8> returned by Request::build
    tx,         \* bytes written to conn so far
    flushed,    \* how many of the bytes written to conn have been flushed
    sent,       \* what the peer put on the wire (the structured response and where it was cut)
    rx,         \* the bytes the peer delivers on conn
    rxEnd,      \* what conn reports after the last byte: "eof" or "err"
    burst,      \* how many bytes one read of conn returns at most
    rpos,       \* bytes consumed from the BufReader r
    fetched,    \* bytes taken from conn into the BufReader r
    connPos,    \* bytes taken from conn by readers that no longer exist
    buf,        \* the local buf of read_response
    status,     \* the local status
    header,     \* an HttpHeader: the local header of read_response, or a map filled by add
    chunk_size, \* the local chunk_size of the chunked loop
    body,       \* the local body
    result      \* what the call returned: kind "none", "Ok", "Err" or "Panic"

vars == << req, paramsLog, addLog, pc, out, tx, flushed, sent, rx, rxEnd, burst, rpos,
           fetched, connPos, buf, status, header, chunk_size, body, result >>

reqVars == << req, paramsLog >>
connVars == << flushed, sent, rx, rxEnd, burst >>
readVars == << rpos, fetched, connPos, buf, status, header, chunk_size, body >>

-----------------------------------------------------------------------------
\* Bounds of the model.

\* longest list of pairs given to HttpParams::from_iter / HttpHeader::from_iter
MaxPairs == 2

\* most calls of HttpHeader::add on one map
MaxAdds == 3

\* most calls of execute_request on one HttpClient
MaxCalls == 2

-----------------------------------------------------------------------------
\* Option<T>

None == << >>
Some(x) == << x >>
IsSome(o) == Len(o) = 1
IsNone(o) == Len(o) = 0
Unwrap(o) == o[1]

-----------------------------------------------------------------------------
\* Byte strings used by the program.

CRLF == << 13, 10 >>                                       \* "\r\n"
ColonSp == << 58, 32 >>                                    \* ": "
S_Http11 == << 32, 72, 84, 84, 80, 47, 49, 46, 49 >>       \* " HTTP/1.1"
S_Host == << 72, 111, 115, 116, 58, 32 >>                  \* "Host: "
S_Localhost == << 108, 111, 99, 97, 108, 104, 111, 115, 116 >> \* "localhost"

\* slice [from, to) of a byte string, 0-based like a Rust range
Slice(s, from, to) == SubSeq(s, from + 1, to)

\* Vec<String>::join
RECURSIVE Join(_, _)
Join(parts, sep) ==
    IF Len(parts) = 0 THEN << >>
    ELSE IF Len(parts) = 1 THEN parts[1]
    ELSE parts[1] \o sep \o Join(Tail(parts), sep)

\* Ord for String: byte-wise lexicographic order
RECURSIVE StrLess(_, _)
StrLess(a, b) ==
    IF Len(b) = 0 THEN FALSE
    ELSE IF Len(a) = 0 THEN TRUE
    ELSE IF a[1] # b[1] THEN a[1] < b[1]
    ELSE StrLess(Tail(a), Tail(b))

-----------------------------------------------------------------------------
\* HttpMethod

HttpMethod == { "Get", "Post", "Update", "Delete", "Patch" }

\* impl Default for HttpMethod
HttpMethodDefault == "Get"

\* impl Display for HttpMethod
HttpMethodDisplay(m) ==
    CASE m = "Get"    -> << 71, 69, 84 >>
      [] m = "Post"   -> << 80, 79, 83, 84 >>
      [] m = "Update" -> << 85, 80, 68, 65, 84, 69 >>
      [] m = "Delete" -> << 68, 69, 76, 69, 84, 69 >>
      [] m = "Patch"  -> << 80, 65, 84, 67, 72 >>

-----------------------------------------------------------------------------
\* BTreeMap<String, String>: the entries << key, value >> in ascending key
\* order, as BTreeMap::iter yields them.

BTreeMapNew == << >>

\* BTreeMap::insert on a map that breaks the key order: entries kept in
\* insertion order
BTreeMapInsertUnordered(m, k, v) ==
    IF \E i \in 1..Len(m) : m[i][1] = k
    THEN [ i \in 1..Len(m) |-> IF m[i][1] = k THEN << k, v >> ELSE m[i] ]
    ELSE Append(m, << k, v >>)

\* BTreeMap::insert: replaces the value of an equal key, otherwise places the
\* entry after every smaller key
BTreeMapInsert(m, k, v) ==
    IF \E i \in 1..Len(m) : m[i][1] = k
    THEN [ i \in 1..Len(m) |-> IF m[i][1] = k THEN << k, v >> ELSE m[i] ]
    ELSE LET n == Cardinality({ i \in 1..Len(m) : StrLess(m[i][1], k) })
         IN SubSeq(m, 1, n) \o << << k, v >> >> \o SubSeq(m, n + 1, Len(m))

\* BTreeMap::get
BTreeMapGet(m, k) ==
    IF \E i \in 1..Len(m) : m[i][1] = k
    THEN Some(m[CHOOSE i \in 1..Len(m) : m[i][1] = k][2])
    ELSE None

\* HttpHeader::add and HttpParams::add
MapAdd(m, key, value) == BTreeMapInsert(m, key, value)

\* HttpHeader::get
HeaderGet(h, key) == BTreeMapGet(h, key)

\* HttpHeader::from_iter and HttpParams::from_iter
RECURSIVE FromIterOnto(_, _)
FromIterOnto(p, iter) ==
    IF Len(iter) = 0 THEN p
    ELSE FromIterOnto(MapAdd(p, iter[1][1], iter[1][2]), Tail(iter))

FromIter(iter) == FromIterOnto(BTreeMapNew, iter)

\* the formatted entries of a map, in iteration order
MapLines(m, sep) == [ i \in 1..Len(m) |-> m[i][1] \o sep \o m[i][2] ]

\* impl Display for HttpHeader, iterating the map backwards
HttpHeaderDisplayReversed(h) ==
    Join([ i \in 1..Len(h) |-> MapLines(h, ColonSp)[Len(h) + 1 - i] ], CRLF)

\* impl Display for HttpHeader
HttpHeaderDisplay(h) == Join(MapLines(h, ColonSp), CRLF)

\* impl Display for HttpParams
HttpParamsDisplay(p) == Join(MapLines(p, << 61 >>), << 38 >>)

-----------------------------------------------------------------------------
\* Request

\* the values the callers of the model give to the builder
Urls == { << 47 >>, << 47, 105 >> }                        \* "/", "/i"
Hosts == { << 104 >> }                                     \* "h"
Bodies == { << >>, << 120, 255 >> }                        \* "", "x\xff"

\* the (key, value) pairs given to from_iter: ("b","1"), ("ab","1"), ("ab","2")
Pairs == { << << 98 >>, << 49 >> >>, << << 97, 98 >>, << 49 >> >>,
           << << 97, 98 >>, << 50 >> >> }

RECURSIVE SeqsUpTo(_, _)
SeqsUpTo(S, n) ==
    IF n = 0 THEN { << >> }
    ELSE LET shorter == SeqsUpTo(S, n - 1)
         IN shorter \cup { Append(s, x) : s \in { t \in shorter : Len(t) = n - 1 }, x \in S }

PairLists == SeqsUpTo(Pairs, MaxPairs)

\* Request::new
RequestNew(url) ==
    [ url |-> url, base_url |-> None, method |-> HttpMethodDefault,
      header |-> None, params |-> None, body |-> None ]

\* Request::build without the final "\r\n"
RequestBuildNoTrailer(r) ==
    LET url == IF IsSome(r.params)
               THEN r.url \o << 63 >> \o HttpParamsDisplay(Unwrap(r.params))
               ELSE r.url
        base_url == IF IsSome(r.base_url) THEN Unwrap(r.base_url) ELSE S_Localhost
        lines == << HttpMethodDisplay(r.method) \o << 32 >> \o url \o S_Http11,
                    S_Host \o base_url >>
        withHeader == IF IsSome(r.header)
                      THEN Append(lines, HttpHeaderDisplay(Unwrap(r.header)) \o CRLF)
                      ELSE lines
        data == IF IsSome(r.body) THEN Unwrap(r.body) ELSE << >>
    IN Join(withHeader, CRLF) \o CRLF \o data

\* Request::build
RequestBuild(r) ==
    LET url == IF IsSome(r.params)
               THEN r.url \o << 63 >> \o HttpParamsDisplay(Unwrap(r.params))
               ELSE r.url
        base_url == IF IsSome(r.base_url) THEN Unwrap(r.base_url) ELSE S_Localhost
        lines == << HttpMethodDisplay(r.method) \o << 32 >> \o url \o S_Http11,
                    S_Host \o base_url >>
        withHeader == IF IsSome(r.header)
                      THEN Append(lines, HttpHeaderDisplay(Unwrap(r.header)) \o CRLF)
                      ELSE lines
        data == IF IsSome(r.body) THEN Unwrap(r.body) ELSE << >>
    IN Join(withHeader, CRLF) \o CRLF \o data \o CRLF

-----------------------------------------------------------------------------
\* Text helpers of the decoder.  The byte strings of the model are ASCII
\* plus the byte 0xff, and their digit strings are a few digits long: the
\* helpers are exact on those.

\* String::from_utf8 succeeds: no byte of the model's alphabet beyond ASCII
\* is valid UTF-8
IsUtf8(s) == \A i \in 1..Len(s) : s[i] < 128

\* char::is_whitespace on ASCII: \t \n \v \f \r and space
IsWhitespace(b) == b \in { 9, 10, 11, 12, 13, 32 }

\* str::trim
RECURSIVE TrimStart(_)
TrimStart(s) ==
    IF Len(s) > 0 /\ IsWhitespace(s[1]) THEN TrimStart(Tail(s)) ELSE s

RECURSIVE TrimEnd(_)
TrimEnd(s) ==
    IF Len(s) > 0 /\ IsWhitespace(s[Len(s)]) THEN TrimEnd(SubSeq(s, 1, Len(s) - 1)) ELSE s

Trim(s) == TrimEnd(TrimStart(s))

\* str::split_whitespace, collected: the maximal runs of non-whitespace
RECURSIVE SplitWhitespace(_)
SplitWhitespace(s) ==
    LET t == TrimStart(s)
    IN IF Len(t) = 0 THEN << >>
       ELSE LET stops == { i \in 1..Len(t) : IsWhitespace(t[i]) }
                n == IF stops = {} THEN Len(t)
                     ELSE (CHOOSE i \in stops : \A j \in stops : i <= j) - 1
            IN << SubSeq(t, 1, n) >> \o SplitWhitespace(SubSeq(t, n + 1, Len(t)))

\* Iterator::nth
Nth(items, n) == IF n + 1 <= Len(items) THEN Some(items[n + 1]) ELSE None

\* str::to_lowercase on ASCII
ToLowercase(s) ==
    [ i \in 1..Len(s) |-> IF s[i] >= 65 /\ s[i] <= 90 THEN s[i] + 32 ELSE s[i] ]

\* str::find: the 0-based index of the first occurrence of pat, or -1
Find(s, pat) ==
    LET hits == { i \in 0..(Len(s) - Len(pat)) : SubSeq(s, i + 1, i + Len(pat)) = pat }
    IN IF hits = {} THEN -1 ELSE CHOOSE i \in hits : \A j \in hits : i <= j

\* str::split, collected
RECURSIVE Split(_, _)
Split(s, pat) ==
    LET i == Find(s, pat)
    IN IF i < 0 THEN << s >>
       ELSE << SubSeq(s, 1, i) >> \o Split(SubSeq(s, i + Len(pat) + 1, Len(s)), pat)

\* char::to_digit: the value of a digit in the radix, or -1
ToDigit(b, radix) ==
    LET v == IF b >= 48 /\ b <= 57 THEN b - 48
             ELSE IF b >= 97 /\ b <= 122 THEN b - 97 + 10
             ELSE IF b >= 65 /\ b <= 90 THEN b - 65 + 10
             ELSE -1
    IN IF v < radix THEN v ELSE -1

RECURSIVE DigitsValue(_, _, _)
DigitsValue(s, radix, acc) ==
    IF Len(s) = 0 THEN acc
    ELSE DigitsValue(Tail(s), radix, acc * radix + ToDigit(s[1], radix))

\* core::num from_str_radix: Some(value) or None for an error.  A signed
\* type accepts a leading "+" or "-", an unsigned type a leading "+".
FromStrRadix(s, radix, signed) ==
    LET sign == IF Len(s) > 0 /\ s[1] = 43 THEN 1
                ELSE IF Len(s) > 0 /\ s[1] = 45 /\ signed THEN -1
                ELSE 0
        digits == IF sign = 0 THEN s ELSE Tail(s)
    IN IF Len(digits) = 0 THEN None
       ELSE IF \E i \in 1..Len(digits) : ToDigit(digits[i], radix) < 0 THEN None
       ELSE Some((IF sign = -1 THEN -1 ELSE 1) * DigitsValue(digits, radix, 0))

\* str::parse::<u32>
ParseU32(s) == FromStrRadix(s, 10, FALSE)

\* str::parse::<isize>
ParseIsize(s) == FromStrRadix(s, 10, TRUE)

\* the chunk size read as a decimal number
ParseChunkSizeDecimal(s) == FromStrRadix(s, 10, TRUE)

\* i64::from_str_radix(_, 16)
ParseHexI64(s) == FromStrRadix(s, 16, TRUE)

-----------------------------------------------------------------------------
\* conn and the BufReader r over it.  conn delivers the bytes of rx, at most
\* burst of them per read, and then reports rxEnd.  Positions count the
\* bytes of rx: r has handed out rx[1..rpos] and holds rx[rpos+1..fetched].

Min(a, b) == IF a < b THEN a ELSE b

\* BufReader::fill_buf, repeated: r reads conn again each time its buffer is
\* used up, until it holds the byte at position to
RECURSIVE FetchedFor(_, _)
FetchedFor(f, to) ==
    IF to <= f \/ f >= Len(rx) THEN f
    ELSE FetchedFor(Min(f + burst, Len(rx)), to)

\* the position after the line that starts after position p: after its
\* newline, or the end of the stream
LineEnd(p) ==
    LET nls == { i \in (p + 1)..Len(rx) : rx[i] = 10 }
    IN IF nls # {} THEN CHOOSE i \in nls : \A j \in nls : i <= j ELSE Len(rx)

\* BufRead::read_until(b'\n', _) from position p: whether the read succeeded,
\* the position after the line, and the number n of bytes read.  Without a
\* newline the line runs to the end of the stream, where conn reports
\* end-of-stream (Ok) or an error.
ReadUntilLF(p) ==
    [ ok |-> (\E i \in (p + 1)..Len(rx) : rx[i] = 10) \/ rxEnd = "eof",
      to |-> LineEnd(p),
      n |-> LineEnd(p) - p ]

\* read_exact replaced by a single read, which returns what one read of conn
\* delivers
ReadExactOneRead(p, n) ==
    IF p + Min(n, burst) <= Len(rx)
    THEN [ ok |-> TRUE, to |-> p + Min(n, burst) ]
    ELSE [ ok |-> FALSE, to |-> Len(rx) ]

\* Read::read_exact of n bytes from position p
ReadExact(p, n) ==
    IF p + n <= Len(rx)
    THEN [ ok |-> TRUE, to |-> p + n ]
    ELSE [ ok |-> FALSE, to |-> Len(rx) ]

-----------------------------------------------------------------------------
\* What a call returns.

Panic(what) ==
    [ kind |-> "Panic", msg |-> what, line |-> << >>,
      status |-> 0, header |-> BTreeMapNew, body |-> None ]

Err(msg) ==
    [ kind |-> "Err", msg |-> msg, line |-> << >>,
      status |-> 0, header |-> BTreeMapNew, body |-> None ]

\* the error of a bad chunk-size line without the line
ErrLineDropped(msg, line) ==
    [ kind |-> "Err", msg |-> msg, line |-> << >>,
      status |-> 0, header |-> BTreeMapNew, body |-> None ]

\* Err(format!("cannot read chunk length: {}: {}", line, err))
ErrLine(msg, line) ==
    [ kind |-> "Err", msg |-> msg, line |-> line,
      status |-> 0, header |-> BTreeMapNew, body |-> None ]

\* Ok(Response { .. }) with an empty body given as None
OkEmptyBodyAsNone(st, hd, bd) ==
    [ kind |-> "Ok", msg |-> "", line |-> << >>,
      status |-> st, header |-> hd, body |-> IF bd = Some(<< >>) THEN None ELSE bd ]

\* Ok(Response { status, header, body })
Ok(st, hd, bd) ==
    [ kind |-> "Ok", msg |-> "", line |-> << >>,
      status |-> st, header |-> hd, body |-> bd ]

-----------------------------------------------------------------------------
\* The state in which nothing has been sent or read.

NoResult ==
    [ kind |-> "none", msg |-> "", line |-> << >>,
      status |-> 0, header |-> BTreeMapNew, body |-> None ]

ReadInit ==
    /\ rpos = 0
    /\ fetched = 0
    /\ connPos = 0
    /\ buf = << >>
    /\ status = 0
    /\ header = BTreeMapNew
    /\ chunk_size = 0
    /\ body = << >>

NoPeer == [ status |-> << >>, lines |-> << >>, framing |-> "raw",
            chunks |-> << >>, raw |-> << >> ]

-----------------------------------------------------------------------------
\* The request builder: a caller creates a Request, sets fields, and calls
\* build.

InitReq ==
    /\ \E url \in Urls : req = RequestNew(url)
    /\ paramsLog = << >>
    /\ addLog = << >>
    /\ pc = "new"
    /\ out = << >>
    /\ tx = << >>
    /\ flushed = 0
    /\ sent = NoPeer
    /\ rx = << >>
    /\ rxEnd = "eof"
    /\ burst = 1
    /\ ReadInit
    /\ result = NoResult

\* Request::base_url
SetBaseUrl ==
    /\ pc = "new"
    /\ \E p \in Hosts : req' = [ req EXCEPT !.base_url = Some(p) ]
    /\ UNCHANGED << paramsLog, pc, out, tx, connVars, addLog, readVars, result >>

\* Request::method
SetMethod ==
    /\ pc = "new"
    /\ \E p \in HttpMethod : req' = [ req EXCEPT !.method = p ]
    /\ UNCHANGED << paramsLog, pc, out, tx, connVars, addLog, readVars, result >>

\* Request::header, given a map collected from a list of pairs
SetHeader ==
    /\ pc = "new"
    /\ \E iter \in PairLists : req' = [ req EXCEPT !.header = Some(FromIter(iter)) ]
    /\ UNCHANGED << paramsLog, pc, out, tx, connVars, addLog, readVars, result >>

\* Request::params, given a map collected from a list of pairs
SetParams ==
    /\ pc = "new"
    /\ \E iter \in PairLists :
         /\ req' = [ req EXCEPT !.params = Some(FromIter(iter)) ]
         /\ paramsLog' = iter
    /\ UNCHANGED << pc, out, tx, connVars, addLog, readVars, result >>

\* Request::body
SetBody ==
    /\ pc = "new"
    /\ \E p \in Bodies : req' = [ req EXCEPT !.body = Some(p) ]
    /\ UNCHANGED << paramsLog, pc, out, tx, connVars, addLog, readVars, result >>

\* Request::build (also the first statement of execute_request)
Build ==
    /\ pc = "new"
    /\ out' = RequestBuild(req)
    /\ pc' = "built"
    /\ UNCHANGED << reqVars, tx, connVars, addLog, readVars, result >>

NextReq ==
    \/ SetBaseUrl
    \/ SetMethod
    \/ SetHeader
    \/ SetParams
    \/ SetBody
    \/ Build

SpecReq == InitReq /\ [][NextReq]_vars

-----------------------------------------------------------------------------
\* An HttpHeader filled by calls of add.

\* "a", "A", "b"
HeaderKeys == { << 97 >>, << 65 >>, << 98 >> }
\* "1", "2"
HeaderValues == { << 49 >>, << 50 >> }

\* HttpHeader::new
InitHdr ==
    /\ req = RequestNew(<< 47 >>)
    /\ paramsLog = << >>
    /\ addLog = << >>
    /\ pc = "map"
    /\ out = << >>
    /\ tx = << >>
    /\ flushed = 0
    /\ sent = NoPeer
    /\ rx = << >>
    /\ rxEnd = "eof"
    /\ burst = 1
    /\ ReadInit
    /\ result = NoResult

\* HttpHeader::add
HeaderAdd ==
    /\ pc = "map"
    /\ Len(addLog) < MaxAdds
    /\ \E key \in HeaderKeys, value \in HeaderValues :
          /\ header' = MapAdd(header, key, value)
          /\ addLog' = Append(addLog, << key, value >>)
    /\ UNCHANGED << reqVars, pc, out, tx, connVars, rpos, fetched, connPos, buf,
                    status, chunk_size, body, result >>

NextHdr == HeaderAdd

SpecHdr == InitHdr /\ [][NextHdr]_vars

-----------------------------------------------------------------------------
\* The peer: the responses it puts on the wire.  A response is a status
\* line, header lines, a blank line and what follows it; the stream is that
\* response cut after any number of bytes.

\* longest list of chunks in a chunked body the peer sends
MaxChunks == 2

S_200 == << 72, 32, 50, 48, 48, 32, 79, 75, 13, 10 >>      \* "H 200 OK\r\n"
S_204 == << 72, 32, 50, 48, 52, 32, 78, 13, 10 >>          \* "H 204 N\r\n"
S_304 == << 72, 32, 51, 48, 52, 32, 78, 13, 10 >>          \* "H 304 N\r\n"
S_NoCode == << 72, 13, 10 >>                               \* "H\r\n"
S_BadCode == << 72, 32, 120, 120, 13, 10 >>                \* "H xx\r\n"
S_NotUtf8 == << 72, 32, 255, 13, 10 >>                     \* "H \xff\r\n"

\* "Content-Length: 3", ": 5", ": 0", ": -1", ": x"
H_ContentLength3 ==
    << 67, 111, 110, 116, 101, 110, 116, 45, 76, 101, 110, 103, 116, 104, 58, 32, 51 >>
H_ContentLength5 ==
    << 67, 111, 110, 116, 101, 110, 116, 45, 76, 101, 110, 103, 116, 104, 58, 32, 53 >>
H_ContentLength0 ==
    << 67, 111, 110, 116, 101, 110, 116, 45, 76, 101, 110, 103, 116, 104, 58, 32, 48 >>
H_ContentLengthNeg ==
    << 67, 111, 110, 116, 101, 110, 116, 45, 76, 101, 110, 103, 116, 104, 58, 32, 45, 49 >>
H_ContentLengthBad ==
    << 67, 111, 110, 116, 101, 110, 116, 45, 76, 101, 110, 103, 116, 104, 58, 32, 120 >>
\* "Transfer-Encoding: chunked", "TRANSFER-ENCODING: chunked",
\* "Transfer-Encoding: Chunked", "Transfer-Encoding: gzip"
H_Chunked ==
    << 84, 114, 97, 110, 115, 102, 101, 114, 45, 69, 110, 99, 111, 100, 105, 110, 103,
       58, 32, 99, 104, 117, 110, 107, 101, 100 >>
H_ChunkedUpperKey ==
    << 84, 82, 65, 78, 83, 70, 69, 82, 45, 69, 78, 67, 79, 68, 73, 78, 71,
       58, 32, 99, 104, 117, 110, 107, 101, 100 >>
H_ChunkedCapital ==
    << 84, 114, 97, 110, 115, 102, 101, 114, 45, 69, 110, 99, 111, 100, 105, 110, 103,
       58, 32, 67, 104, 117, 110, 107, 101, 100 >>
H_ChunkedColons ==                                         \* "...: chunked: x"
    << 84, 114, 97, 110, 115, 102, 101, 114, 45, 69, 110, 99, 111, 100, 105, 110, 103,
       58, 32, 99, 104, 117, 110, 107, 101, 100, 58, 32, 120 >>
H_Gzip ==
    << 84, 114, 97, 110, 115, 102, 101, 114, 45, 69, 110, 99, 111, 100, 105, 110, 103,
       58, 32, 103, 122, 105, 112 >>
H_Colons == << 88, 58, 32, 97, 58, 32, 98 >>               \* "X: a: b"
H_NoColon == << 98, 97, 100 >>                             \* "bad"

HeaderSets ==
    { << >>,
      << H_ContentLength3 >>,
      << H_ContentLength5 >>,
      << H_ContentLength0 >>,
      << H_ContentLengthNeg >>,
      << H_ContentLengthBad >>,
      << H_Chunked >>,
      << H_ChunkedUpperKey >>,
      << H_ChunkedCapital >>,
      << H_ChunkedColons >>,
      << H_Chunked, H_ContentLength3 >>,
      << H_Gzip >>,
      << H_Gzip, H_ContentLength3 >>,
      << H_Colons >>,
      << H_Colons, H_ContentLength3 >>,
      << H_NoColon >> }

\* the data of a chunk: "ab", and ten bytes that look like the end of a
\* chunked body, "0\r\n\r\n56789"
ChunkData == { << 97, 98 >>, << 48, 13, 10, 13, 10, 53, 54, 55, 56, 57 >> }

ChunkLists == SeqsUpTo(ChunkData, MaxChunks)

\* what follows the blank line when it is not a well-formed chunked body:
\* "abc", "abcde", "zz\r\n", "-1\r\nab\r\n", "2\r\nab\r\nzz\r\n", and "abc"
\* followed by a second response, "H 204 N\r\n\r\n"
RawTails ==
    { << 97, 98, 99 >>, << 97, 98, 99, 100, 101 >>, << 122, 122, 13, 10 >>,
      << 45, 49, 13, 10, 97, 98, 13, 10 >>,
      << 50, 13, 10, 97, 98, 13, 10, 122, 122, 13, 10 >>,
      << 97, 98, 99, 72, 32, 50, 48, 52, 32, 78, 13, 10, 13, 10 >> }

\* a chunk size in hexadecimal (sizes below 16)
HexSize(n) == << IF n < 10 THEN 48 + n ELSE 97 + n - 10 >>

\* <hex-size>\r\n<data>\r\n ... 0\r\n\r\n
RECURSIVE WireChunks(_)
WireChunks(chunks) ==
    IF Len(chunks) = 0 THEN << 48, 13, 10, 13, 10 >>
    ELSE HexSize(Len(chunks[1])) \o << 13, 10 >> \o chunks[1] \o << 13, 10 >>
         \o WireChunks(Tail(chunks))

RECURSIVE WireLines(_)
WireLines(lines) ==
    IF Len(lines) = 0 THEN << >>
    ELSE lines[1] \o << 13, 10 >> \o WireLines(Tail(lines))

\* status line, header lines and the blank line
WireHead(s) == s.status \o WireLines(s.lines) \o << 13, 10 >>

WireTail(s) == IF s.framing = "chunked" THEN WireChunks(s.chunks) ELSE s.raw

WireResponse(s) == WireHead(s) \o WireTail(s)

Peer(st, lines, framing, chunks, raw) ==
    [ status |-> st, lines |-> lines, framing |-> framing, chunks |-> chunks, raw |-> raw ]

Responses ==
    { Peer(S_200, hs, "chunked", cs, << >>) : hs \in HeaderSets, cs \in ChunkLists }
    \cup { Peer(S_200, hs, "raw", << >>, t) : hs \in HeaderSets, t \in RawTails }
    \cup { Peer(st, hs, "chunked", << << 97, 98 >> >>, << >>) :
             st \in { S_204, S_304 }, hs \in HeaderSets }
    \cup { Peer(st, hs, "raw", << >>, << 97, 98, 99 >>) :
             st \in { S_204, S_304 }, hs \in HeaderSets }
    \cup { Peer(st, << H_ContentLength3 >>, "raw", << >>, << 97, 98, 99 >>) :
             st \in { S_NoCode, S_BadCode, S_NotUtf8 } }

\* how many bytes one read of conn returns at most: the peer's bytes arrive
\* one by one, or all of them are there (8192 is BufReader's capacity)
Bursts == { 1, 8192 }

-----------------------------------------------------------------------------
\* main: one Client, one Request::get, one execute_request.

\* Request::get
RequestGet(url) == [ RequestNew(url) EXCEPT !.method = "Get" ]

Init ==
    /\ req = RequestGet(<< 47, 105 >>)
    /\ paramsLog = << >>
    /\ addLog = << >>
    /\ pc = "new"
    /\ out = << >>
    /\ tx = << >>
    /\ flushed = 0
    /\ sent \in Responses
    /\ \E cut \in 0..Len(WireResponse(sent)) : rx = SubSeq(WireResponse(sent), 1, cut)
    /\ rxEnd \in { "eof", "err" }
    /\ burst \in Bursts
    /\ ReadInit
    /\ result = NoResult

\* an error or a result that does not leave the loop it arises in
ReturnAndRetry(res) ==
    /\ result' = res
    /\ pc' = pc
    /\ connPos' = fetched'

\* the end of a call of read_response: the BufReader r is dropped, and with
\* it the bytes it took from conn and did not hand out
Return(res) ==
    /\ result' = res
    /\ pc' = "done"
    /\ connPos' = fetched'

Continue(next) ==
    /\ pc' = next
    /\ UNCHANGED << result, connPos >>

\* execute_request: self.conn.write_all(&body).unwrap(), then the first
\* statements of read_response.  The bytes of a failed write are not counted
\* in tx.  conn.flush() is not called between the two, nor anywhere else:
\* flushed is left as it is.
WriteAll ==
    /\ pc = "built"
    /\ \/ /\ tx' = tx \o out
          /\ pc' = "status"
          /\ rpos' = connPos
          /\ fetched' = connPos
          /\ buf' = << >>
          /\ UNCHANGED << result, connPos >>
       \/ /\ result' = Panic("write_all")
          /\ pc' = "done"
          /\ UNCHANGED << tx, rpos, fetched, buf, connPos >>
    /\ UNCHANGED << reqVars, out, connVars, addLog, status, header, chunk_size, body >>

\* read_response: the status line
ReadStatusLine ==
    /\ pc = "status"
    /\ LET r == ReadUntilLF(rpos)
           status_line == Slice(rx, rpos, rpos + r.n)
           token == Nth(SplitWhitespace(status_line), 1)
           code == IF IsSome(token) THEN ParseU32(Unwrap(token)) ELSE None
       IN /\ rpos' = r.to
          /\ fetched' = FetchedFor(fetched, r.to)
          /\ buf' = status_line
          /\ IF ~r.ok THEN
                Return(Panic("read_until")) /\ UNCHANGED << status, header >>
             ELSE IF ~IsUtf8(status_line) THEN
                Return(Err("cannot convert bytes to string")) /\ UNCHANGED << status, header >>
             ELSE IF IsNone(token) THEN
                Return(Err("cannot get status code")) /\ UNCHANGED << status, header >>
             ELSE IF IsNone(code) THEN
                Return(Err("cannot parse to number")) /\ UNCHANGED << status, header >>
             ELSE
                /\ status' = Unwrap(code)
                /\ header' = BTreeMapNew
                /\ Continue("headers")
    /\ UNCHANGED << reqVars, out, tx, connVars, addLog, chunk_size, body >>

\* the end of the header block taken to be any line that is blank once trimmed
IsBlankLineTrimmed(line) == Trim(line) = << >>

\* if line == "\r\n" { break; }
IsBlankLine(line) == line = CRLF

\* read_response: one iteration of the header loop
ReadHeaderLine ==
    /\ pc = "headers"
    /\ LET r == ReadUntilLF(rpos)
           readed == r.n
           line == Slice(rx, rpos, rpos + r.n)
           cols == Split(Trim(line), ColonSp)
           key == ToLowercase(cols[1])
           val == Nth(cols, 1)
       IN /\ rpos' = r.to
          /\ fetched' = FetchedFor(fetched, r.to)
          /\ buf' = line
          /\ IF ~r.ok THEN
                Return(Err("cannot read header")) /\ UNCHANGED header
             ELSE IF readed = 0 THEN
                Return(Err("unexpected endof")) /\ UNCHANGED header
             ELSE IF ~IsUtf8(line) THEN
                Return(Err("cannot coonvert bytes to string")) /\ UNCHANGED header
             ELSE IF IsBlankLine(line) THEN
                Continue("classify") /\ UNCHANGED header
             ELSE IF IsNone(val) THEN
                Return(Err("invalid header value")) /\ UNCHANGED header
             ELSE
                /\ header' = MapAdd(header, key, Unwrap(val))
                /\ Continue("headers")
    /\ UNCHANGED << reqVars, out, tx, connVars, addLog, status, chunk_size, body >>

S_transfer_encoding ==                                     \* "transfer-encoding"
    << 116, 114, 97, 110, 115, 102, 101, 114, 45, 101, 110, 99, 111, 100, 105, 110, 103 >>
S_content_length ==                                        \* "content-length"
    << 99, 111, 110, 116, 101, 110, 116, 45, 108, 101, 110, 103, 116, 104 >>
S_chunked == << 99, 104, 117, 110, 107, 101, 100 >>        \* "chunked"

\* the statuses whose response is returned without a body: only 204
NoBodyStatusOnly204(st) == st = 204

\* match status { 204 | 304 => ... }
NoBodyStatus(st) == st = 204 \/ st = 304

\* the check for a missing body length, left out
MissingFramingUnchecked(tf, cl) == FALSE

\* if tf.is_none() && cl.is_none()
MissingFraming(tf, cl) == IsNone(tf) /\ IsNone(cl)

\* let is_chunked = tf.map(|x| x.to_owned() == "chunked").unwrap_or(false)
IsChunked(tf) == IsSome(tf) /\ Unwrap(tf) = S_chunked

\* read_response: the match on status and the choice of the body framing
Classify ==
    /\ pc = "classify"
    /\ UNCHANGED << reqVars, out, tx, connVars, addLog, rpos, fetched, buf, status, header,
                    chunk_size >>
    /\ LET tf == HeaderGet(header, S_transfer_encoding)
           cl == HeaderGet(header, S_content_length)
       IN IF NoBodyStatus(status) THEN
             Return(Ok(status, header, None)) /\ UNCHANGED body
          ELSE IF MissingFraming(tf, cl) THEN
             Return(Err("missing transfer-encoding or content-length")) /\ UNCHANGED body
          ELSE
             /\ body' = << >>
             /\ Continue(IF IsChunked(tf) THEN "chunked" ELSE "fixed")

\* read_response: one iteration of the chunked loop.  The results of the
\* read_until calls that consume the line after a chunk are dropped.
ReadChunk ==
    /\ pc = "chunked"
    /\ LET r == ReadUntilLF(rpos)
           readed == r.n
           line == Slice(rx, rpos, rpos + r.n)
           size == ParseHexI64(Trim(line))
           n == Unwrap(size)
           data == ReadExact(r.to, n)
           after == ReadUntilLF(IF n = 0 THEN r.to ELSE data.to)
       IN IF ~r.ok THEN
             /\ rpos' = r.to
             /\ buf' = line
             /\ fetched' = FetchedFor(fetched, r.to)
             /\ Return(Panic("read_until"))
             /\ UNCHANGED << chunk_size, body >>
          ELSE IF readed = 0 THEN
             /\ rpos' = r.to
             /\ buf' = line
             /\ fetched' = FetchedFor(fetched, r.to)
             /\ Return(Ok(status, header, Some(body)))
             /\ UNCHANGED << chunk_size, body >>
          ELSE IF ~IsUtf8(line) THEN
             /\ rpos' = r.to
             /\ buf' = line
             /\ fetched' = FetchedFor(fetched, r.to)
             /\ Return(Err("cannot coonvert bytes to string"))
             /\ UNCHANGED << chunk_size, body >>
          ELSE IF IsNone(size) THEN
             /\ rpos' = r.to
             /\ buf' = line
             /\ fetched' = FetchedFor(fetched, r.to)
             /\ Return(ErrLine("cannot read chunk length", line))
             /\ UNCHANGED << chunk_size, body >>
          ELSE IF n = 0 THEN
             /\ chunk_size' = n
             /\ rpos' = after.to
             /\ buf' = line \o Slice(rx, r.to, after.to)
             /\ fetched' = FetchedFor(fetched, after.to)
             /\ Return(Ok(status, header, Some(body)))
             /\ UNCHANGED body
          ELSE IF n < 0 THEN
             /\ chunk_size' = n
             /\ rpos' = r.to
             /\ buf' = line
             /\ fetched' = FetchedFor(fetched, r.to)
             /\ Return(Panic("capacity overflow"))
             /\ UNCHANGED body
          ELSE IF ~data.ok THEN
             /\ chunk_size' = n
             /\ rpos' = data.to
             /\ buf' = line
             /\ fetched' = FetchedFor(fetched, data.to)
             /\ Return(Panic("read_exact"))
             /\ UNCHANGED body
          ELSE
             /\ chunk_size' = n
             /\ body' = body \o Slice(rx, r.to, data.to)
             /\ rpos' = after.to
             /\ buf' = line \o Slice(rx, data.to, after.to)
             /\ fetched' = FetchedFor(fetched, after.to)
             /\ Continue("chunked")
    /\ UNCHANGED << reqVars, out, tx, connVars, addLog, status, header >>

\* read_response: the body of a response that is not chunked
ReadFixed ==
    /\ pc = "fixed"
    /\ LET value == HeaderGet(header, S_content_length)
           parsed == ParseIsize(Unwrap(value))
           size == Unwrap(parsed)
           data == ReadExact(rpos, size)
       IN IF IsNone(value) THEN
             /\ UNCHANGED << rpos, fetched, body >>
             /\ Return(Err("not found content-length"))
          ELSE IF IsNone(parsed) THEN
             /\ UNCHANGED << rpos, fetched, body >>
             /\ Return(Err(IF Len(Unwrap(value)) = 0
                           THEN "cannot parse integer from empty string"
                           ELSE "invalid digit found in string"))
          ELSE IF size < 0 THEN
             /\ UNCHANGED << rpos, fetched, body >>
             /\ Return(Panic("capacity overflow"))
          ELSE IF ~data.ok THEN
             /\ rpos' = data.to
             /\ fetched' = FetchedFor(fetched, data.to)
             /\ Return(Panic("read_exact"))
             /\ UNCHANGED body
          ELSE
             /\ rpos' = data.to
             /\ fetched' = FetchedFor(fetched, data.to)
             /\ body' = Slice(rx, rpos, data.to)
             /\ Return(Ok(status, header, Some(Slice(rx, rpos, data.to))))
    /\ UNCHANGED << reqVars, out, tx, connVars, addLog, buf, status, header, chunk_size >>

Next ==
    \/ Build
    \/ WriteAll
    \/ ReadStatusLine
    \/ ReadHeaderLine
    \/ Classify
    \/ ReadChunk
    \/ ReadFixed

Spec == Init /\ [][Next]_vars

\* the caller calls execute_request again, with the same Request, on the
\* HttpClient whose last call returned Ok: the locals of the new call are
\* new, conn is where the last call left it
ExecuteAgain ==
    /\ pc = "done"
    /\ result.kind = "Ok"
    /\ Len(tx) < MaxCalls * Len(out)
    /\ pc' = "new"
    /\ result' = NoResult
    /\ out' = << >>
    /\ buf' = << >>
    /\ status' = 0
    /\ header' = BTreeMapNew
    /\ chunk_size' = 0
    /\ body' = << >>
    /\ UNCHANGED << reqVars, addLog, tx, connVars, rpos, fetched, connPos >>

NextReuse ==
    \/ Next
    \/ ExecuteAgain

SpecReuse == Init /\ [][NextReuse]_vars

-----------------------------------------------------------------------------
\* What the wire format of a request is, written from the HTTP/1.1 grammar
\* and not from the encoder: used to state the properties of Request::build.

WireMethod(m) ==
    CASE m = "Get"    -> << 71, 69, 84 >>                  \* "GET"
      [] m = "Post"   -> << 80, 79, 83, 84 >>              \* "POST"
      [] m = "Update" -> << 85, 80, 68, 65, 84, 69 >>      \* "UPDATE"
      [] m = "Delete" -> << 68, 69, 76, 69, 84, 69 >>      \* "DELETE"
      [] m = "Patch"  -> << 80, 65, 84, 67, 72 >>          \* "PATCH"

WireHost(r) ==
    IF r.base_url = None
    THEN << 108, 111, 99, 97, 108, 104, 111, 115, 116 >>   \* "localhost"
    ELSE r.base_url[1]

IsPrefix(p, s) == Len(p) <= Len(s) /\ SubSeq(s, 1, Len(p)) = p

\* the entries of a set of pairs with distinct keys, smallest key first
RECURSIVE ByKey(_)
ByKey(S) ==
    IF S = {} THEN << >>
    ELSE LET least == CHOOSE x \in S : \A y \in S : x = y \/ StrLess(x[1], y[1])
         IN << least >> \o ByKey(S \ { least })

Entries(m) == { m[i] : i \in 1..Len(m) }

\* the pairs of a list that a later pair with the same key does not replace
Effective(log) ==
    { log[i] : i \in { k \in 1..Len(log) :
                         \A j \in (k + 1)..Len(log) : log[j][1] # log[k][1] } }

DistinctKeys(log) ==
    \A i, j \in 1..Len(log) : i # j => log[i][1] # log[j][1]

\* "k1=v1&k2=v2..."
RECURSIVE WireQuery(_)
WireQuery(ps) ==
    IF Len(ps) = 0 THEN << >>
    ELSE ps[1][1] \o << 61 >> \o ps[1][2]
         \o (IF Len(ps) > 1 THEN << 38 >> ELSE << >>) \o WireQuery(Tail(ps))

\* "k1: v1\r\nk2: v2\r\n..."
RECURSIVE WireHeaderLines(_)
WireHeaderLines(hs) ==
    IF Len(hs) = 0 THEN << >>
    ELSE hs[1][1] \o << 58, 32 >> \o hs[1][2] \o << 13, 10 >> \o WireHeaderLines(Tail(hs))

\* "<METHOD> <target> HTTP/1.1\r\nHost: <host>\r\n"
WireStart(r, target) ==
    WireMethod(r.method) \o << 32 >> \o target
        \o << 32, 72, 84, 84, 80, 47, 49, 46, 49, 13, 10 >>
        \o << 72, 111, 115, 116, 58, 32 >> \o WireHost(r) \o << 13, 10 >>

WireTarget(r) ==
    IF r.params = None THEN r.url
    ELSE r.url \o << 63 >> \o WireQuery(ByKey(Entries(r.params[1])))

\* request line, Host line and one line per header entry
WireHeaderBlock(r) ==
    WireStart(r, WireTarget(r))
        \o (IF r.header = None THEN << >>
            ELSE WireHeaderLines(ByKey(Entries(r.header[1]))))

\* every order in which the pairs of a list can be inserted
Reorderings(log) ==
    { [ i \in 1..Len(log) |-> log[f[i]] ] : f \in Permutations(1..Len(log)) }

-----------------------------------------------------------------------------
\* Properties of Request::build, under SpecReq.

\* C1: a request with a body is encoded as the request line and the header
\* lines, a blank line, the body bytes verbatim right after the blank line,
\* and one trailing "\r\n" -- whether the header map is absent, empty or not.
C1_BodyFollowsBlankLine ==
    (pc = "built" /\ req.body # None)
        => out = WireHeaderBlock(req) \o << 13, 10 >> \o req.body[1] \o << 13, 10 >>

\* C4: a request without params, headers and body is encoded as exactly
\* "<METHOD> <path> HTTP/1.1\r\nHost: <host or localhost>\r\n\r\n".
C4_Bare == pc = "built" /\ req.params = None /\ req.header = None /\ req.body = None

C4_BareRequestEncoding ==
    C4_Bare => out = WireStart(req, req.url) \o << 13, 10 >>

C4_Witness == C4_Bare /\ req.method = "Patch" /\ req.base_url # None

\* C5: with params, the target of the request line is the path, "?" and the
\* key=value pairs joined by "&" in lexicographic key order; and the encoded
\* bytes are the same for every insertion order of the same pairs.
C5_ParamsOrder ==
    (pc = "built" /\ req.params # None)
        => /\ IsPrefix(WireStart(req, req.url \o << 63 >>
                                      \o WireQuery(ByKey(Effective(paramsLog)))), out)
           /\ DistinctKeys(paramsLog)
                => \A other \in Reorderings(paramsLog) :
                      RequestBuild([ req EXCEPT !.params = Some(FromIter(other)) ]) = out

C5_Witness ==
    /\ pc = "built"
    /\ req.params # None
    /\ paramsLog = << << << 98 >>, << 49 >> >>, << << 97, 98 >>, << 50 >> >> >>

\* C6: with headers, the Host line follows the request line, then comes one
\* "key: value\r\n" line per entry of the header map in lexicographic key
\* order, then the blank line; the encoder adds no other header line.
C6_HeaderLines ==
    (pc = "built" /\ req.header # None)
        => IsPrefix(WireHeaderBlock(req) \o << 13, 10 >>, out)

C6_Witness ==
    /\ pc = "built"
    /\ req.header # None
    /\ Len(req.header[1]) = 2
    /\ req.body # None

-----------------------------------------------------------------------------
\* What the stream holds, read from what the peer sent and not from what the
\* decoder did: used to state the properties of read_response.

\* the call of read_response has begun
ReadStarted == tx # << >>

\* a header line of the form "key: value"
WellFormedLine(l) == \E i \in 1..(Len(l) - 1) : l[i] = 58 /\ l[i + 1] = 32

ColonAt(l) == CHOOSE i \in 1..(Len(l) - 1) :
                 /\ l[i] = 58 /\ l[i + 1] = 32
                 /\ \A j \in 1..(i - 1) : ~(l[j] = 58 /\ l[j + 1] = 32)

\* the name of a header line, in lower case, and its value
WireKey(l) == ToLowercase(SubSeq(l, 1, ColonAt(l) - 1))
WireValue(l) == SubSeq(l, ColonAt(l) + 2, Len(l))

WellFormedHead == \A i \in 1..Len(sent.lines) : WellFormedLine(sent.lines[i])

HasHeader(name) ==
    \E i \in 1..Len(sent.lines) :
        WellFormedLine(sent.lines[i]) /\ WireKey(sent.lines[i]) = name

\* the whole header block, blank line included, is on the stream
HeadArrived == IsPrefix(WireHead(sent), rx)

\* the bytes of the stream after the blank line
AfterHead == SubSeq(rx, Len(WireHead(sent)) + 1, Len(rx))

RECURSIVE Concat(_)
Concat(chunks) == IF Len(chunks) = 0 THEN << >> ELSE chunks[1] \o Concat(Tail(chunks))

\* the chunks and the line of the zero-size chunk: "...0\r\n"
WireChunksThroughZero(chunks) ==
    SubSeq(WireChunks(chunks), 1, Len(WireChunks(chunks)) - 2)

-----------------------------------------------------------------------------
\* Properties of read_response and execute_request, under Spec.

\* C2: read_response returns Ok with a body only when the stream held the
\* complete framed body: all n bytes for Content-Length n; for chunked, every
\* chunk up to and including the zero-size chunk.
C2_NoPartialSuccess ==
    (result.kind = "Ok" /\ result.body # None)
        => /\ HeadArrived
           /\ IF IsChunked(HeaderGet(result.header, S_transfer_encoding))
              THEN \E cs \in ChunkLists :
                      /\ IsPrefix(WireChunksThroughZero(cs), AfterHead)
                      /\ result.body = Some(Concat(cs))
              ELSE \E n \in 0..Len(AfterHead) :
                      /\ HeaderGet(result.header, S_content_length) # None
                      /\ ParseIsize(HeaderGet(result.header, S_content_length)[1]) = Some(n)
                      /\ result.body = Some(SubSeq(AfterHead, 1, n))

\* C3: every failure of execute_request / read_response is returned as an
\* Err value; no call ends in a panic.
C3_NoPanic == result.kind # "Panic"

\* C7: a response with status 204 or 304 and a well-formed header block ending
\* in a blank line is returned as Ok with body None, whatever Content-Length /
\* Transfer-Encoding headers it has, and no byte after the blank line is read.
C7_Case ==
    /\ pc = "done"
    /\ ReadStarted
    /\ sent.status \in { S_204, S_304 }
    /\ WellFormedHead
    /\ HeadArrived

C7_NoBodyStatuses ==
    C7_Case => /\ result.kind = "Ok"
               /\ result.status = (IF sent.status = S_204 THEN 204 ELSE 304)
               /\ result.body = None
               /\ rpos = Len(WireHead(sent))

C7_Witness ==
    /\ C7_Case
    /\ sent.status = S_304
    /\ sent.lines = << H_ContentLengthBad >>
    /\ Len(AfterHead) > 0
    /\ result.kind = "Ok"

\* C8: in every Ok(Response), body is None exactly when status is 204 or 304;
\* otherwise it is Some, and Some(empty) when Content-Length is 0 or when the
\* chunked body is the zero-size chunk alone.
C8_BodyNoneIffNoBodyStatus ==
    result.kind = "Ok"
        => /\ result.body = None <=> result.status \in { 204, 304 }
           /\ (/\ result.status \notin { 204, 304 }
               /\ ~HasHeader(S_transfer_encoding)
               /\ \E i \in 1..Len(sent.lines) :
                    /\ WellFormedLine(sent.lines[i])
                    /\ WireKey(sent.lines[i]) = S_content_length
                    /\ WireValue(sent.lines[i]) = << 48 >>)
                 => result.body = Some(<< >>)
           /\ (/\ result.status \notin { 204, 304 }
               /\ IsChunked(HeaderGet(result.header, S_transfer_encoding))
               /\ sent.framing = "chunked"
               /\ sent.chunks = << >>)
                 => result.body = Some(<< >>)

C8_Witness ==
    /\ result.kind = "Ok"
    /\ result.status = 200
    /\ sent.lines = << H_ContentLength0 >>
    /\ Len(AfterHead) > 0
    /\ result.body = Some(<< >>)

\* C9: a response with a status other than 204/304 whose headers hold neither
\* Transfer-Encoding nor Content-Length fails with "missing transfer-encoding
\* or content-length"; it is never Ok with an empty or EOF-delimited body.
C9_Case ==
    /\ pc = "done"
    /\ ReadStarted
    /\ sent.status = S_200
    /\ WellFormedHead
    /\ HeadArrived
    /\ ~HasHeader(S_transfer_encoding)
    /\ ~HasHeader(S_content_length)

C9_MissingFramingIsError ==
    C9_Case => /\ result.kind = "Err"
               /\ result.msg = "missing transfer-encoding or content-length"

C9_Witness ==
    /\ C9_Case
    /\ sent.lines = << H_Colons >>
    /\ Len(AfterHead) > 0
    /\ result.kind = "Err"

\* C10: for a well-formed chunked response (Transfer-Encoding: chunked, k >= 0
\* chunks, then 0\r\n\r\n) the body returned is the concatenation of the
\* chunks' data in stream order, without the size lines and the CRLFs.
C10_Case ==
    /\ pc = "done"
    /\ ReadStarted
    /\ sent.status = S_200
    /\ WellFormedHead
    /\ \E i \in 1..Len(sent.lines) :
          /\ WireKey(sent.lines[i]) = S_transfer_encoding
          /\ WireValue(sent.lines[i]) = S_chunked
    /\ sent.framing = "chunked"
    /\ rx = WireResponse(sent)

C10_ChunkedBody ==
    C10_Case => /\ result.kind = "Ok"
                /\ result.body = Some(Concat(sent.chunks))

C10_Witness ==
    /\ C10_Case
    /\ sent.lines = << H_Chunked, H_ContentLength3 >>
    /\ sent.chunks = << << 97, 98 >>, << 48, 13, 10, 13, 10, 53, 54, 55, 56, 57 >> >>
    /\ result.body = Some(<< 97, 98, 48, 13, 10, 13, 10, 53, 54, 55, 56, 57 >>)

\* the header block has a line of the given name and value
HasHeaderValue(name, value) ==
    \E i \in 1..Len(sent.lines) :
        /\ WellFormedLine(sent.lines[i])
        /\ WireKey(sent.lines[i]) = name
        /\ WireValue(sent.lines[i]) = value

\* the decimal digit n as text
Digit(n) == << 48 + n >>

\* the response is, on the wire, one with Content-Length: n, no chunked
\* Transfer-Encoding, status 200, and n bytes or more after the blank line
C11_Case(n) ==
    /\ pc = "done"
    /\ ReadStarted
    /\ sent.status = S_200
    /\ WellFormedHead
    /\ HeadArrived
    /\ HasHeaderValue(S_content_length, Digit(n))
    /\ ~HasHeaderValue(S_transfer_encoding, S_chunked)
    /\ Len(AfterHead) >= n

\* C11: for a response with Content-Length: n, no chunked Transfer-Encoding, a
\* status other than 204/304 and at least n bytes after the blank line, the
\* body returned is exactly the first n bytes after the blank line, for every
\* n >= 0, and exactly those n bytes are consumed.
C11_FixedLengthBody ==
    \A n \in 0..9 :
        C11_Case(n) => /\ result.kind = "Ok"
                       /\ result.status = 200
                       /\ result.body = Some(SubSeq(AfterHead, 1, n))
                       /\ rpos = Len(WireHead(sent)) + n

C11_Witness ==
    /\ C11_Case(3)
    /\ sent.lines = << H_Gzip, H_ContentLength3 >>
    /\ burst = 1
    /\ AfterHead = << 97, 98, 99, 100, 101 >>
    /\ result.body = Some(<< 97, 98, 99 >>)

\* text that from_str_radix(_, 16) reads as an integer: an optional sign and
\* one hexadecimal digit or more
HexText(s) ==
    LET digits == IF Len(s) > 0 /\ s[1] \in { 43, 45 } THEN Tail(s) ELSE s
    IN /\ Len(digits) > 0
       /\ \A i \in 1..Len(digits) :
            digits[i] \in (48..57) \cup (65..70) \cup (97..102)

\* the line of the stream that starts after the position read so far
NextLine == SubSeq(rx, rpos + 1, LineEnd(rpos))

\* the chunked loop is about to read a chunk-size line that is there, is text,
\* and is not a hexadecimal integer once trimmed
C12_Case ==
    /\ pc = "chunked"
    /\ NextLine # << >>
    /\ NextLine[Len(NextLine)] = 10 \/ rxEnd = "eof"
    /\ IsUtf8(NextLine)
    /\ ~HexText(Trim(NextLine))

\* C12: in chunked framing, a chunk-size line that is not a hexadecimal integer
\* once trimmed ends read_response with an error that carries the text of the
\* offending line; no Response is returned.
C12_BadChunkSizeLine ==
    [][C12_Case => /\ pc' = "done"
                   /\ result'.kind = "Err"
                   /\ result'.msg = "cannot read chunk length"
                   /\ result'.line = NextLine]_vars

C12_Witness ==
    /\ pc = "done"
    /\ sent.lines = << H_Chunked >>
    /\ body = << 97, 98 >>
    /\ result.kind = "Err"
    /\ result.msg = "cannot read chunk length"
    /\ result.line = << 122, 122, 13, 10 >>

\* read_response has started to read conn
Reading ==
    \/ pc \in { "status", "headers", "classify", "chunked", "fixed" }
    \/ pc = "done" /\ result.kind # "Panic"
    \/ pc = "done" /\ result.kind = "Panic" /\ result.msg # "write_all"

\* C13: execute_request serializes the request, writes all its bytes, flushes
\* the stream and only then reads the response: while and after read_response
\* reads, the whole request has been written to conn and flushed.
C13_WrittenAndFlushedBeforeRead ==
    Reading => /\ out = RequestBuild(req)
               /\ tx = out
               /\ flushed = Len(tx)

-----------------------------------------------------------------------------
\* Properties of HttpHeader, under SpecHdr.

\* the value of the last add whose key equals k ignoring letter case
LastAdd(log, k) ==
    LET same == { i \in 1..Len(log) : ToLowercase(log[i][1]) = ToLowercase(k) }
    IN IF same = {} THEN None
       ELSE Some(log[CHOOSE i \in same : \A j \in same : j <= i][2])

\* C14: after any sequence of add(key, value) calls, get(k) returns the value
\* of the last add whose key equals k ignoring letter case, and None if there
\* is none.
C14_CaseInsensitiveLastWriteWins ==
    pc = "map" => \A k \in HeaderKeys : HeaderGet(header, k) = LastAdd(addLog, k)

-----------------------------------------------------------------------------
\* Properties of the header parse and of the choice of framing, under Spec.

\* C15: each header line is split on the first ": " only: the stored key is
\* the lower-cased text before it and the stored value is the whole remainder
\* of the line, further colons and ": " included.
C15_ValueIsWholeRemainder ==
    (pc = "done" /\ result.kind = "Ok")
        => \A i \in 1..Len(sent.lines) :
              WellFormedLine(sent.lines[i])
                 => HeaderGet(result.header, WireKey(sent.lines[i]))
                       = Some(WireValue(sent.lines[i]))

\* the header block has a Content-Length line whose value is n
ContentLengthIs(n) == HasHeaderValue(S_content_length, Digit(n))

\* a response with a status other than 204/304 whose header block has been read
C16_Case ==
    /\ ReadStarted
    /\ sent.status = S_200
    /\ WellFormedHead
    /\ HeadArrived

\* C16: for a status other than 204/304 the body is decoded as chunked exactly
\* when the Transfer-Encoding value equals "chunked", with or without a
\* Content-Length; otherwise as a fixed length when Content-Length is present
\* and parses; otherwise the call fails.  A Transfer-Encoding value other than
\* "chunked" never causes chunked decoding.
C16_FramingSelection ==
    C16_Case
        => /\ pc = "chunked" => HasHeaderValue(S_transfer_encoding, S_chunked)
           /\ pc = "fixed" => ~HasHeaderValue(S_transfer_encoding, S_chunked)
           /\ (/\ pc = "done"
               /\ ~HasHeaderValue(S_transfer_encoding, S_chunked)
               /\ \A n \in 0..9 : ~ContentLengthIs(n)
               /\ ~HasHeaderValue(S_content_length, << 45, 49 >>))
                 => result.kind = "Err"

\* Content-Length values that are not a non-negative integer: "-1" and "x"
BadLengths == { << 45, 49 >>, << 120 >> }

\* C17: a Content-Length value that is negative or not an integer makes
\* read_response return an error result, and no body byte is read for it.
C17_BadContentLengthIsError ==
    (/\ C16_Case
     /\ pc = "done"
     /\ ~HasHeader(S_transfer_encoding)
     /\ \E v \in BadLengths : HasHeaderValue(S_content_length, v))
        => /\ result.kind = "Err"
           /\ rpos = Len(WireHead(sent))

\* the stream ended, without a read error, before the blank line that ends the
\* header block
C18_Case ==
    /\ pc = "done"
    /\ ReadStarted
    /\ rxEnd = "eof"
    /\ ~HeadArrived

\* C18: when the stream ends before a line that is "\r\n" alone has been read,
\* read_response returns an error, for every status code, 204 and 304
\* included, and never a Response; when the stream ends after a whole line of
\* a well-formed head the error is "unexpected endof".
C18_UnterminatedHeadIsError ==
    C18_Case
        => /\ result.kind = "Err"
           /\ (/\ sent.status \in { S_200, S_204, S_304 }
               /\ WellFormedHead
               /\ Len(rx) > 0
               /\ rx[Len(rx)] = 10)
                 => /\ result.msg = "unexpected endof"
                    /\ rpos = Len(rx)

C18_Witness ==
    /\ C18_Case
    /\ sent.status = S_204
    /\ sent.lines = << H_Chunked, H_ContentLength3 >>
    /\ rx = SubSeq(WireHead(sent), 1, Len(WireHead(sent)) - 2)
    /\ header # BTreeMapNew
    /\ result.msg = "unexpected endof"

-----------------------------------------------------------------------------
\* Properties of the reuse of one HttpClient, under SpecReuse.

\* the number of bytes of the first response of the stream, for a response
\* with status 200 and Content-Length: n
FirstResponseEnd(n) == Len(WireHead(sent)) + n

\* a later call of execute_request has written its request and is about to
\* read its status line
LaterCallStarts ==
    /\ pc = "status"
    /\ Len(tx) > Len(out)

\* C19: when execute_request is called again after a call that returned Ok, the
\* new call reads its response from the first byte that follows the first
\* response: the first decode neither lost nor skipped bytes of the stream that
\* follow its response.
C19_SecondStartsAfterFirst ==
    \A n \in 0..9 :
       (/\ LaterCallStarts
        /\ sent.status = S_200
        /\ WellFormedHead
        /\ ~HasHeader(S_transfer_encoding)
        /\ ContentLengthIs(n))
          => rpos = FirstResponseEnd(n)

-----------------------------------------------------------------------------
\* Termination of read_response, under Spec.

\* an iteration of the header loop or of the chunked loop that is followed by
\* another iteration of the same loop
LoopAgain ==
    /\ pc \in { "headers", "chunked" }
    /\ pc' = pc

\* how far each position of the call is from its end
PcRank ==
    [ new |-> 6, built |-> 5, status |-> 4, headers |-> 3, classify |-> 2,
      chunked |-> 1, fixed |-> 1, done |-> 0 ]

\* a bound on the steps a call has left: its position, then the bytes of the
\* stream it has not consumed
Rank == PcRank[pc] * (Len(rx) + 1) + (Len(rx) - rpos)

\* C20: read_response terminates on every finite stream: an iteration of the
\* header loop or of the chunked loop that does not leave the loop consumes
\* one byte or more, no step consumes more than the stream holds, and every
\* step brings the call nearer to its end, so a call takes a bounded number
\* of steps to its result or failure.
C20_ReadResponseTerminates ==
    [][/\ LoopAgain => rpos' > rpos
       /\ rpos' <= Len(rx)
       /\ Rank' < Rank]_vars

C20_Witness ==
    /\ pc = "done"
    /\ rxEnd = "eof"
    /\ sent.lines = << H_Colons, H_Chunked >> \/ sent.lines = << H_Chunked, H_ContentLength3 >>
    /\ sent.framing = "chunked"
    /\ Len(sent.chunks) = 2
    /\ rx = WireResponse(sent)
    /\ rpos = Len(rx)
    /\ result.kind = "Ok"

====
